---- MODULE Spec2Model ----
(***************************************************************************)
(* polycache-core: the single-tier cache (caching), the tiered cache       *)
(* (multiCaching), the LRU store and the promise-coalesce registry the two *)
(* wrap functions share.                                                   *)
(*                                                                         *)
(* JavaScript runs the handlers as cooperative tasks: a task runs          *)
(* atomically from one await to the next.  Every Store call and every      *)
(* producer call is an await, so each action below is "the awaited call    *)
(* takes effect and settles, and the task runs on to its next await".      *)
(***************************************************************************)
EXTENDS Integers, Sequences, FiniteSets, TLC

\* ---------------------------------------------------------------- bounds
NumTiers == 2          \* members of the tiered cache, in priority order
MaxCalls == 2          \* calls (with their background work) alive at once

Tiers == 1..NumTiers
Calls == 1..MaxCalls
Slots == 1..(2 * MaxCalls)     \* slot c + MaxCalls: the member wrap started by call c
Keys == {"k", "j"}
WrapKeys == {"k"}                \* the keys callers wrap and get one at a time

\* ---------------------------------------------------------------- values
None == -1                     \* JavaScript undefined
Values == {0, 1}               \* cacheable payloads (0 is falsy but defined)
Reject == -2                   \* a producer whose promise rejects
Producers == Values \cup {None, Reject}   \* fn = v stands for async () => v

NoSpec == -1                   \* options?.ttl undefined
FnSpec == -2                   \* options.ttl is a function of the value
TtlSpecs == {NoSpec, FnSpec}

LruTtl == 3                    \* lruOpts.ttl the Stores are created with, in clock ticks
Infinity == 1000               \* lru-cache: remaining TTL of an entry that never expires
Threshold == 2                 \* a configured refreshThreshold

NoErr == "none"
ProducerError == "ProducerError"
StoreError == "StoreError"
Uncacheable == "no cacheable value"

VARIABLES
  store,             \* store[t][k]: the entry tier t's Store holds for k
  callbacks,         \* promise-coalesce's module-level map: key -> queued waiters
  slots,             \* the calls in progress and their background work
  down,              \* tiers whose Store calls throw
  refreshThreshold   \* cacheOptions.refreshThreshold of each tier (0: not set)

vars == <<store, callbacks, slots, down, refreshThreshold>>

NotAsked == -9                 \* store.ttl(key) was not called
NoKey == <<-1>>                \* callbacks.has(key) is false
Absent == [val |-> None, ttl |-> 0]

\* A call as it starts: its arguments, then the locals of the handler and what
\* the check observes of it
Fresh ==
  [op |-> "none", cache |-> 0, key |-> "k", fn |-> None, ttl |-> NoSpec,
   pc |-> "get", leader |-> 0, i |-> 0, value |-> None, result |-> None,
   cacheTTL |-> NoSpec, fnCalls |-> 0, setCalls |-> 0,
   status |-> "none", ret |-> None, err |-> NoErr,
   remainingTtl |-> NotAsked, rpc |-> "none", rres |-> None, bgCalls |-> 0,
   pend |-> {}, unhandled |-> NoErr,
   keys |-> <<>>, values |-> <<>>, asked |-> <<>>, data |-> None, args |-> <<>>,
   alone |-> TRUE, elapsed |-> 0, ttlArgs |-> <<>>, before |-> {}]

\* ---------------------------------------------------------------- pure helpers
\* A wrap TTL function: (v) => duration, as in the tests' (v) => v.length / 2 * 1000.
\* It gives 0 (lru-cache: no expiry) for the value 0.
TtlFn(v) == IF v = None THEN 1 ELSE 2 * v

resolveTTLOfNothing(item, ttl) == IF ttl = FnSpec THEN TtlFn(None) ELSE ttl

\* utils.resolveTTL
resolveTTL(item, ttl) == IF ttl = FnSpec THEN TtlFn(item) ELSE ttl

\* const cacheTTL = resolveTTL(item, options?.ttl) in a handler: the TTL, and the
\* argument options.ttl is called with when it is a function
Resolve(r, item) ==
  [r EXCEPT !.cacheTTL = resolveTTL(item, r.ttl),
            !.ttlArgs = IF r.ttl = FnSpec THEN Append(@, item) ELSE @]

isCacheableAny(v) == TRUE

\* createLruStore: the default isCacheable
isCacheable(v) == v # None

shouldRefreshNever(remainingTtl, threshold) == FALSE

shouldRefreshNoSentinel(remainingTtl, threshold) == remainingTtl < threshold

\* caching.wrap's refresh test
shouldRefresh(remainingTtl, threshold) ==
  remainingTtl # -1 /\ remainingTtl < threshold

hasKeyNever(k) == FALSE

\* promise-coalesce hasKey
hasKey(k) == callbacks[k] # NoKey

StoreGetFalsyMissing(t, k) == IF store[t][k].val = 0 THEN None ELSE store[t][k].val

StoreGetMiss(t, k) == None

\* Store.get: an expired or missing key reads as undefined
StoreGet(t, k) == store[t][k].val

WrittenDefaultTtl(t, v, ttl) == [val |-> v, ttl |-> LruTtl]

\* Store.set(key, value, ttl): the entry written; ttl undefined falls back to lruOpts.ttl
Written(t, v, ttl) ==
  [val |-> v, ttl |-> IF ttl = NoSpec THEN LruTtl ELSE ttl]

\* Store.ttl(key): what a Store may answer.  lru-cache answers 0 for a missing key
\* and Infinity for one that never expires; a redis-like Store answers -2 and -1.
TtlReplies(t, k) ==
  LET e == store[t][k] IN
  IF e.val = None THEN {0, -2}
  ELSE IF e.ttl = 0 THEN {Infinity, -1}
  ELSE {e.ttl}

\* The leader of the execution in flight for k
Live == DOMAIN slots

Executing(s) ==
  /\ s \in Live
  /\ slots[s].op \in {"wrap", "mwrap"}
  /\ slots[s].leader = 0
  /\ slots[s].pc \in {"get", "fn", "set", "ttl", "ret"}

LeaderOf(k) ==
  IF \E s \in Slots : Executing(s) /\ slots[s].key = k
  THEN CHOOSE s \in Slots : Executing(s) /\ slots[s].key = k
  ELSE 0

\* ---------------------------------------------------------------- initial state
\* Nothing cached, nothing in flight.  The configuration: which members are
\* unavailable, and each member's cacheOptions.
InitWith(D, R) ==
  /\ store = [t \in Tiers |-> [k \in Keys |-> Absent]]
  /\ callbacks = [k \in Keys |-> NoKey]
  /\ slots = <<>>
  /\ down \in D
  /\ refreshThreshold \in R

\* One single-tier cache, caching(store, cacheOptions), over a working Store
Init == InitWith({{}}, {[t \in Tiers |-> IF t = 1 THEN th ELSE 0] : th \in {0, Threshold}})

\* ---------------------------------------------------------------- promise-coalesce
\* coalesceAsync(key, fn), up to its first await: the first caller for a key
\* registers the key and runs fn, a later one is queued on the key.
Put(sl, s, rec) == [w \in DOMAIN sl \cup {s} |-> IF w = s THEN rec ELSE sl[w]]

EnterByProducer(cb, sl, s, rec) ==
  IF cb[rec.key] # NoKey /\ hasKey(rec.key) /\ slots[LeaderOf(rec.key)].fn = rec.fn
  THEN [cb |-> [cb EXCEPT ![rec.key] = Append(@, s)],
        sl |-> Put(sl, s, [rec EXCEPT !.pc = "enqueued", !.leader = LeaderOf(rec.key)])]
  ELSE [cb |-> [cb EXCEPT ![rec.key] = <<>>],
        sl |-> Put(sl, s, [rec EXCEPT !.pc = "get"])]

Enter(cb, sl, s, rec) ==
  IF cb[rec.key] # NoKey /\ hasKey(rec.key)
  THEN [cb |-> [cb EXCEPT ![rec.key] = Append(@, s)],
        sl |-> Put(sl, s, [rec EXCEPT !.pc = "enqueued", !.leader = LeaderOf(rec.key)])]
  ELSE [cb |-> [cb EXCEPT ![rec.key] = <<>>],
        sl |-> Put(sl, s, [rec EXCEPT !.pc = "get"])]

\* The queue dequeue(key) hands to coalesce()
Queue(k) == IF callbacks[k] = NoKey THEN <<>> ELSE callbacks[k]

Range(q) == {q[n] : n \in 1..Len(q)}

\* The member wrap a tiered wrap starts is followed by .then() alone: its
\* rejection is an unhandled rejection.
Outcome(s, rec, status, ret, err) ==
  [rec EXCEPT !.pc = "done", !.status = status, !.ret = ret, !.err = err,
              !.unhandled = IF s > MaxCalls /\ status = "rejected" THEN err ELSE @]

CoalesceSettleKeepsFailed(s) ==
  /\ slots[s].pc = "ret"
  /\ LET k == slots[s].key
         r == slots[s]
     IN /\ callbacks' = IF r.status = "rejected" THEN [callbacks EXCEPT ![k] = <<>>]
                        ELSE [callbacks EXCEPT ![k] = NoKey]
        /\ slots' = [w \in Live |->
             IF w = s \/ w \in Range(Queue(k))
             THEN Outcome(w, slots[w], r.status, r.ret, r.err)
             ELSE slots[w]]
  /\ UNCHANGED <<store, down, refreshThreshold>>

CoalesceSettleLeaderOnly(s) ==
  /\ slots[s].pc = "ret"
  /\ LET k == slots[s].key
         r == slots[s]
     IN /\ callbacks' = [callbacks EXCEPT ![k] = NoKey]
        /\ slots' = [slots EXCEPT ![s] = Outcome(s, r, r.status, r.ret, r.err)]
  /\ UNCHANGED <<store, down, refreshThreshold>>

\* fn has settled inside coalesceAsync: coalesce({key, result | error}) removes the
\* key and settles every queued waiter with the leader's outcome.
CoalesceSettle(s) ==
  /\ slots[s].pc = "ret"
  /\ LET k == slots[s].key
         r == slots[s]
     IN /\ callbacks' = [callbacks EXCEPT ![k] = NoKey]
        /\ slots' = [w \in Live |->
             IF w = s \/ w \in Range(Queue(k))
             THEN Outcome(w, slots[w], r.status, r.ret, r.err)
             ELSE slots[w]]
  /\ UNCHANGED <<store, down, refreshThreshold>>

\* The inner async function of wrap returns or throws
Return(rec, v) == [rec EXCEPT !.pc = "ret", !.status = "fulfilled", !.ret = v]

ThrowWrapped(rec, e) == [rec EXCEPT !.pc = "ret", !.status = "rejected", !.err = "WrappedError"]

Throw(rec, e) == [rec EXCEPT !.pc = "ret", !.status = "rejected", !.err = e]

\* ---------------------------------------------------------------- caching.wrap
\* A settled call whose background work is over can be forgotten
CanRetire(s) ==
  /\ slots[s].pc = "done"
  /\ slots[s].rpc \in {"none", "done"}
  /\ slots[s].pend = {}
  /\ \A w \in Live : slots[w].leader # s

\* A caller starts a call in the first free slot, once the calls that are over
\* have been forgotten (forgetting changes nothing the program does)
FreeCall(s) ==
  /\ s \in Calls \ Live
  /\ \A c \in Calls : c < s => c \in Live
  /\ \A w \in Live : ~CanRetire(w)

NewCall(op, c, k, f, t) ==
  [Fresh EXCEPT !.op = op, !.cache = c, !.key = k, !.fn = f, !.ttl = t]

WrapCall(s, c, k, f, t) ==
  /\ FreeCall(s)
  /\ LET e == Enter(callbacks, slots, s, NewCall("wrap", c, k, f, t))
     IN callbacks' = e.cb /\ slots' = e.sl
  /\ UNCHANGED <<store, down, refreshThreshold>>

\* const value = await store.get(key), then the branch on it
WrapGet(s) ==
  /\ slots[s].op = "wrap" /\ slots[s].pc = "get"
  /\ LET r == slots[s]
         c == r.cache
         v == StoreGet(c, r.key)
     IN slots' = [slots EXCEPT ![s] =
          IF c \in down THEN Throw(r, StoreError)
          ELSE IF v = None
            THEN [r EXCEPT !.pc = "fn", !.fnCalls = @ + 1]
          ELSE IF refreshThreshold[c] # 0
            THEN Resolve([r EXCEPT !.pc = "ttl", !.value = v], v)
          ELSE Return([r EXCEPT !.value = v], v)]
  /\ UNCHANGED <<store, callbacks, down, refreshThreshold>>

\* const result = await fn(); const cacheTTL = resolveTTL(result, options?.ttl)
WrapFn(s) ==
  /\ slots[s].op = "wrap" /\ slots[s].pc = "fn"
  /\ LET r == slots[s]
     IN slots' = [slots EXCEPT ![s] =
          IF r.fn = Reject THEN Throw(r, ProducerError)
          ELSE Resolve([r EXCEPT !.pc = "set", !.result = r.fn, !.setCalls = @ + 1], r.fn)]
  /\ UNCHANGED <<store, callbacks, down, refreshThreshold>>

\* await store.set(key, result, cacheTTL); return result
WrapSet(s) ==
  /\ slots[s].op = "wrap" /\ slots[s].pc = "set"
  /\ LET r == slots[s]
         c == r.cache
     IN IF c \in down
        THEN slots' = [slots EXCEPT ![s] = Throw(r, StoreError)] /\ UNCHANGED store
        ELSE IF ~isCacheable(r.result)
        THEN slots' = [slots EXCEPT ![s] = Throw(r, Uncacheable)] /\ UNCHANGED store
        ELSE /\ store' = [store EXCEPT ![c][r.key] = Written(c, r.result, r.cacheTTL)]
             /\ slots' = [slots EXCEPT ![s] = Return(r, r.result)]
  /\ UNCHANGED <<callbacks, down, refreshThreshold>>

WrapTtlOneRefresh(s) ==
  /\ slots[s].op = "wrap" /\ slots[s].pc = "ttl"
  /\ LET r == slots[s]
         c == r.cache
         busy == \E w \in Live : slots[w].rpc \in {"fn", "set"} /\ slots[w].key = r.key
     IN IF c \in down
        THEN slots' = [slots EXCEPT ![s] = Throw(r, StoreError)]
        ELSE \E rem \in TtlReplies(c, r.key) :
          slots' = [slots EXCEPT ![s] =
            IF shouldRefresh(rem, refreshThreshold[c]) /\ ~busy
            THEN Return([r EXCEPT !.remainingTtl = rem, !.rpc = "fn", !.bgCalls = @ + 1], r.value)
            ELSE Return([r EXCEPT !.remainingTtl = rem], r.value)]
  /\ UNCHANGED <<store, callbacks, down, refreshThreshold>>

\* const remainingTtl = await store.ttl(key); maybe fn().then(...); return value
WrapTtl(s) ==
  /\ slots[s].op = "wrap" /\ slots[s].pc = "ttl"
  /\ LET r == slots[s]
         c == r.cache
     IN IF c \in down
        THEN slots' = [slots EXCEPT ![s] = Throw(r, StoreError)]
        ELSE \E rem \in TtlReplies(c, r.key) :
          slots' = [slots EXCEPT ![s] =
            IF shouldRefresh(rem, refreshThreshold[c])
            THEN Return([r EXCEPT !.remainingTtl = rem, !.rpc = "fn", !.bgCalls = @ + 1], r.value)
            ELSE Return([r EXCEPT !.remainingTtl = rem], r.value)]
  /\ UNCHANGED <<store, callbacks, down, refreshThreshold>>

\* The background fn() settles; .then((result) => store.set(key, result, cacheTTL))
RefreshFn(s) ==
  /\ slots[s].rpc = "fn"
  /\ LET r == slots[s]
     IN slots' = [slots EXCEPT ![s] =
          IF r.fn = Reject
          THEN [r EXCEPT !.rpc = "done", !.unhandled = ProducerError]
          ELSE [r EXCEPT !.rpc = "set", !.rres = r.fn]]
  /\ UNCHANGED <<store, callbacks, down, refreshThreshold>>

RefreshSetResolvingAgain(s) ==
  /\ slots[s].rpc = "set"
  /\ LET r == Resolve(slots[s], slots[s].rres)
         c == r.cache
     IN IF c \in down
        THEN slots' = [slots EXCEPT ![s] = [r EXCEPT !.rpc = "done", !.unhandled = StoreError]]
             /\ UNCHANGED store
        ELSE IF ~isCacheable(r.rres)
        THEN slots' = [slots EXCEPT ![s] = [r EXCEPT !.rpc = "done", !.unhandled = Uncacheable]]
             /\ UNCHANGED store
        ELSE /\ store' = [store EXCEPT ![c][r.key] = Written(c, r.rres, r.cacheTTL)]
             /\ slots' = [slots EXCEPT ![s] = [r EXCEPT !.rpc = "done"]]
  /\ UNCHANGED <<callbacks, down, refreshThreshold>>

RefreshSetDropped(s) ==
  /\ slots[s].rpc = "set"
  /\ slots' = [slots EXCEPT ![s].rpc = "done"]
  /\ UNCHANGED <<store, callbacks, down, refreshThreshold>>

\* The background store.set settles; nothing catches its rejection
RefreshSet(s) ==
  /\ slots[s].rpc = "set"
  /\ LET r == slots[s]
         c == r.cache
     IN IF c \in down
        THEN slots' = [slots EXCEPT ![s] = [r EXCEPT !.rpc = "done", !.unhandled = StoreError]]
             /\ UNCHANGED store
        ELSE IF ~isCacheable(r.rres)
        THEN slots' = [slots EXCEPT ![s] = [r EXCEPT !.rpc = "done", !.unhandled = Uncacheable]]
             /\ UNCHANGED store
        ELSE /\ store' = [store EXCEPT ![c][r.key] = Written(c, r.rres, r.cacheTTL)]
             /\ slots' = [slots EXCEPT ![s] = [r EXCEPT !.rpc = "done"]]
  /\ UNCHANGED <<callbacks, down, refreshThreshold>>

\* ---------------------------------------------------------------- multiCaching.get
MultiGetCall(s, k) ==
  /\ FreeCall(s)
  /\ slots' = Put(slots, s, [NewCall("mget", 0, k, None, NoSpec) EXCEPT !.i = 1])
  /\ UNCHANGED <<store, callbacks, down, refreshThreshold>>

\* A member's get: cache.get is store.get, which throws when the Store is down
CacheGet(t, k) == IF t \in down THEN [threw |-> TRUE, val |-> None]
                  ELSE [threw |-> FALSE, val |-> StoreGet(t, k)]

MultiGetStepPromoting(s) ==
  /\ slots[s].op = "mget" /\ slots[s].pc = "get"
  /\ LET r == slots[s]
         g == CacheGet(r.i, r.key)
     IN /\ slots' = [slots EXCEPT ![s] =
             IF g.val # None THEN [r EXCEPT !.pc = "done", !.status = "fulfilled", !.ret = g.val]
             ELSE IF r.i < NumTiers THEN [r EXCEPT !.i = @ + 1]
             ELSE [r EXCEPT !.pc = "done", !.status = "fulfilled", !.ret = None]]
        /\ store' = [t \in Tiers |-> IF g.val # None /\ t < r.i /\ t \notin down
                                     THEN [store[t] EXCEPT ![r.key] = store[r.i][r.key]]
                                     ELSE store[t]]
  /\ UNCHANGED <<callbacks, down, refreshThreshold>>

MultiGetStepThrowing(s) ==
  /\ slots[s].op = "mget" /\ slots[s].pc = "get"
  /\ LET r == slots[s]
         g == CacheGet(r.i, r.key)
     IN slots' = [slots EXCEPT ![s] =
          IF g.threw THEN [r EXCEPT !.pc = "done", !.status = "rejected", !.err = StoreError]
          ELSE IF g.val # None THEN [r EXCEPT !.pc = "done", !.status = "fulfilled", !.ret = g.val]
          ELSE IF r.i < NumTiers THEN [r EXCEPT !.i = @ + 1]
          ELSE [r EXCEPT !.pc = "done", !.status = "fulfilled", !.ret = None]]
  /\ UNCHANGED <<store, callbacks, down, refreshThreshold>>

\* One turn of the loop: await cache.get(key) inside try/catch; return the first
\* defined value, or undefined after the last member
MultiGetStep(s) ==
  /\ slots[s].op = "mget" /\ slots[s].pc = "get"
  /\ LET r == slots[s]
         g == CacheGet(r.i, r.key)
     IN slots' = [slots EXCEPT ![s] =
          IF g.val # None THEN [r EXCEPT !.pc = "done", !.status = "fulfilled", !.ret = g.val]
          ELSE IF r.i < NumTiers THEN [r EXCEPT !.i = @ + 1]
          ELSE [r EXCEPT !.pc = "done", !.status = "fulfilled", !.ret = None]]
  /\ UNCHANGED <<store, callbacks, down, refreshThreshold>>

\* ---------------------------------------------------------------- multiCaching.getMany
\* The key lists callers pass: none, one, two, a repeated key
KeyLists == {<<>>, <<"k">>, <<"j">>, <<"k", "j">>, <<"j", "k">>, <<"k", "k">>}

\* values.every((x) => x !== undefined)
AllDefined(values) == \A n \in 1..Len(values) : values[n] # None

\* Store.getMany(...args): args.map((x) => lruCache.get(x))
StoreGetMany(t, ks) == [n \in 1..Len(ks) |-> StoreGet(t, ks[n])]

\* getMany(...keys) up to its first await: values is filled with undefined; the
\* loop breaks at once when there is no slot to fill
MultiGetManyCall(s, ks) ==
  /\ FreeCall(s)
  /\ LET values == [n \in 1..Len(ks) |-> None]
         r == [NewCall("mgetMany", 0, "k", None, NoSpec) EXCEPT !.keys = ks, !.values = values, !.i = 1]
     IN slots' = Put(slots, s,
          IF AllDefined(values) THEN [r EXCEPT !.pc = "done", !.status = "fulfilled"]
          ELSE [r EXCEPT !.pc = "getMany"])
  /\ UNCHANGED <<store, callbacks, down, refreshThreshold>>

FillOverwriting(values, val) ==
  [n \in 1..Len(values) |-> IF val[n] # None THEN val[n] ELSE values[n]]

\* val.forEach: a slot still undefined takes the member's value when it is defined
Fill(values, val) ==
  [n \in 1..Len(values) |-> IF values[n] = None /\ val[n] # None THEN val[n] ELSE values[n]]

\* The batch of keys handed to the member at this turn of the loop
Batch(r) == r.keys

MultiGetManyStepRejecting(s) ==
  /\ slots[s].op = "mgetMany" /\ slots[s].pc = "getMany"
  /\ LET r == slots[s]
         t == r.i
         values == IF t \in down THEN r.values ELSE Fill(r.values, StoreGetMany(t, Batch(r)))
         q == [r EXCEPT !.values = values, !.asked = Append(@, [tier |-> t, keys |-> Batch(r)])]
     IN slots' = [slots EXCEPT ![s] =
          IF t \in down THEN [q EXCEPT !.pc = "done", !.status = "rejected", !.err = StoreError]
          ELSE IF t = NumTiers \/ AllDefined(values)
          THEN [q EXCEPT !.pc = "done", !.status = "fulfilled"]
          ELSE [q EXCEPT !.i = @ + 1]]
  /\ UNCHANGED <<store, callbacks, down, refreshThreshold>>

\* One turn of the loop: await cache.store.getMany(...keys) inside try/catch, fill
\* the slots still undefined, then the test that opens the next turn
MultiGetManyStep(s) ==
  /\ slots[s].op = "mgetMany" /\ slots[s].pc = "getMany"
  /\ LET r == slots[s]
         t == r.i
         values == IF t \in down THEN r.values ELSE Fill(r.values, StoreGetMany(t, Batch(r)))
         q == [r EXCEPT !.values = values, !.asked = Append(@, [tier |-> t, keys |-> Batch(r)])]
     IN slots' = [slots EXCEPT ![s] =
          IF t = NumTiers \/ AllDefined(values)
          THEN [q EXCEPT !.pc = "done", !.status = "fulfilled"]
          ELSE [q EXCEPT !.i = @ + 1]]
  /\ UNCHANGED <<store, callbacks, down, refreshThreshold>>

\* ---------------------------------------------------------------- multiCaching.wrap
MultiWrapCall(s, k, f, t) ==
  /\ FreeCall(s)
  /\ LET e == Enter(callbacks, slots, s, [NewCall("mwrap", 0, k, f, t) EXCEPT !.i = 1])
     IN callbacks' = e.cb /\ slots' = e.sl
  /\ UNCHANGED <<store, down, refreshThreshold>>

MultiWrapGetBackfillAll(s) ==
  /\ slots[s].op = "mwrap" /\ slots[s].pc = "get"
  /\ LET r == slots[s]
         g == CacheGet(r.i, r.key)
         found == Return(Resolve([r EXCEPT !.value = g.val, !.pend = Tiers \ {r.i}], g.val), g.val)
         e == Enter(callbacks, [slots EXCEPT ![s] = found], s + MaxCalls,
                    NewCall("wrap", r.i, r.key, r.fn, r.ttl))
     IN IF g.val # None
        THEN callbacks' = e.cb /\ slots' = e.sl
        ELSE /\ slots' = [slots EXCEPT ![s] =
                  IF r.i < NumTiers THEN [r EXCEPT !.i = @ + 1]
                  ELSE [r EXCEPT !.i = @ + 1, !.pc = "fn", !.fnCalls = @ + 1]]
             /\ UNCHANGED callbacks
  /\ UNCHANGED <<store, down, refreshThreshold>>

\* One turn of the lookup loop, and what follows the loop when it ends here.
\* Found at i: the sets on caches.slice(0, i) and caches[i].wrap(key, fn, options)
\* are started and not awaited, and value is returned.  Not found: fn() is called.
MultiWrapGet(s) ==
  /\ slots[s].op = "mwrap" /\ slots[s].pc = "get"
  /\ LET r == slots[s]
         g == CacheGet(r.i, r.key)
         found == Return(Resolve([r EXCEPT !.value = g.val, !.pend = 1..(r.i - 1)], g.val), g.val)
         e == Enter(callbacks, [slots EXCEPT ![s] = found], s + MaxCalls,
                    NewCall("wrap", r.i, r.key, r.fn, r.ttl))
     IN IF g.val # None
        THEN callbacks' = e.cb /\ slots' = e.sl
        ELSE /\ slots' = [slots EXCEPT ![s] =
                  IF r.i < NumTiers THEN [r EXCEPT !.i = @ + 1]
                  ELSE [r EXCEPT !.i = @ + 1, !.pc = "fn", !.fnCalls = @ + 1]]
             /\ UNCHANGED callbacks
  /\ UNCHANGED <<store, down, refreshThreshold>>

\* const result = await fn(); cacheTTL = resolveTTL(result, options?.ttl);
\* set(key, result, cacheTTL) calls every member's set
MultiWrapFn(s) ==
  /\ slots[s].op = "mwrap" /\ slots[s].pc = "fn"
  /\ LET r == slots[s]
     IN slots' = [slots EXCEPT ![s] =
          IF r.fn = Reject THEN Throw(r, ProducerError)
          ELSE Resolve([r EXCEPT !.pc = "set", !.result = r.fn, !.setCalls = @ + 1,
                                 !.pend = Tiers], r.fn)]
  /\ UNCHANGED <<store, callbacks, down, refreshThreshold>>

\* A member's set(key, v, ttl): the error it throws, if any
SetError(t, v) == IF t \in down THEN StoreError
                  ELSE IF ~isCacheable(v) THEN Uncacheable ELSE NoErr

\* ... and the Stores after it
AfterSet(t, k, v, ttl) ==
  IF SetError(t, v) = NoErr THEN [store EXCEPT ![t][k] = Written(t, v, ttl)] ELSE store

MultiWrapSetFirst(s, t) ==
  /\ slots[s].op = "mwrap" /\ slots[s].pc = "set" /\ t \in slots[s].pend
  /\ LET r == slots[s]
         e == SetError(t, r.result)
         left == [r EXCEPT !.pend = @ \ {t}]
     IN /\ store' = AfterSet(t, r.key, r.result, r.cacheTTL)
        /\ slots' = [slots EXCEPT ![s] =
             IF e # NoErr THEN Throw(left, e) ELSE Return(left, r.result)]
  /\ UNCHANGED <<callbacks, down, refreshThreshold>>

\* One member's set of the awaited fan-out settles.  Promise.all rejects with the
\* first rejection, and is fulfilled when every set is.
MultiWrapSet(s, t) ==
  /\ slots[s].op = "mwrap" /\ slots[s].pc = "set" /\ t \in slots[s].pend
  /\ LET r == slots[s]
         e == SetError(t, r.result)
         left == [r EXCEPT !.pend = @ \ {t}]
     IN /\ store' = AfterSet(t, r.key, r.result, r.cacheTTL)
        /\ slots' = [slots EXCEPT ![s] =
             IF e # NoErr THEN Throw(left, e)
             ELSE IF left.pend = {} THEN Return(left, r.result)
             ELSE left]
  /\ UNCHANGED <<callbacks, down, refreshThreshold>>

BackgroundSetLost(s, t) ==
  /\ slots[s].op = "mwrap" /\ slots[s].pc # "set" /\ t \in slots[s].pend
  /\ slots' = [slots EXCEPT ![s].pend = @ \ {t}]
  /\ UNCHANGED <<store, callbacks, down, refreshThreshold>>

\* A member's set that nobody awaits any more settles: a backfill of the found
\* value (Promise.all(...).then(): the first rejection is unhandled), or a set of
\* a fan-out that has already rejected.
BackgroundSet(s, t) ==
  /\ slots[s].op = "mwrap" /\ slots[s].pc # "set" /\ t \in slots[s].pend
  /\ LET r == slots[s]
         v == IF r.value # None THEN r.value ELSE r.result
         e == SetError(t, v)
     IN /\ store' = AfterSet(t, r.key, v, r.cacheTTL)
        /\ slots' = [slots EXCEPT ![s] =
             [r EXCEPT !.pend = @ \ {t},
                       !.unhandled = IF e # NoErr /\ r.value # None /\ @ = NoErr THEN e ELSE @]]
  /\ UNCHANGED <<callbacks, down, refreshThreshold>>

\* ---------------------------------------------------------------- Store writes
\* Store.del(key): lruCache.delete(key)
StoreDel(kv, k) == [kv EXCEPT ![k] = Absent]

\* Store.delMany(...args): deletes the keys one after the other
RECURSIVE StoreDelMany(_, _)
StoreDelMany(kv, ks) ==
  IF ks = <<>> THEN kv ELSE StoreDelMany(StoreDel(kv, Head(ks)), Tail(ks))

\* Store.reset(): lruCache.clear()
StoreReset(kv) == [k \in DOMAIN kv |-> Absent]

\* Store.setMany(args, ttl): the pairs are written in order; the first value that
\* is not cacheable throws, and the pairs before it stay written
RECURSIVE StoreSetMany(_, _, _)
StoreSetMany(kv, args, ttl) ==
  IF args = <<>> THEN [err |-> NoErr, kv |-> kv]
  ELSE IF ~isCacheable(Head(args)[2]) THEN [err |-> Uncacheable, kv |-> kv]
  ELSE StoreSetMany([kv EXCEPT ![Head(args)[1]] = Written(0, Head(args)[2], ttl)],
                    Tail(args), ttl)

\* Store.set(key, value, ttl)
StoreSet(kv, k, v, ttl) ==
  IF ~isCacheable(v) THEN [err |-> Uncacheable, kv |-> kv]
  ELSE [err |-> NoErr, kv |-> [kv EXCEPT ![k] = Written(0, v, ttl)]]

\* The call a tiered write makes on member t, on behalf of call r: the error it
\* throws, if any, and the member's Store after it
MemberWrite(t, r) ==
  LET kv == store[t] IN
  IF t \in down THEN [err |-> StoreError, kv |-> kv]
  ELSE IF r.op = "mset" THEN StoreSet(kv, r.key, r.data, r.ttl)
  ELSE IF r.op = "msetMany" THEN StoreSetMany(kv, r.args, r.ttl)
  ELSE IF r.op = "mdel" THEN [err |-> NoErr, kv |-> StoreDel(kv, r.key)]
  ELSE IF r.op = "mdelMany" THEN [err |-> NoErr, kv |-> StoreDelMany(kv, r.keys)]
  ELSE [err |-> NoErr, kv |-> StoreReset(kv)]

\* The keys a call writes
Touches(r) ==
  IF r.op = "msetMany" THEN {r.args[n][1] : n \in 1..Len(r.args)}
  ELSE IF r.op = "mdelMany" THEN {r.keys[n] : n \in 1..Len(r.keys)}
  ELSE IF r.op = "mreset" THEN Keys
  ELSE {r.key}

\* Call s has written a Store: the other calls in progress on the keys it writes
\* are no longer alone
Disturb(sl, s) ==
  [w \in DOMAIN sl |->
     IF w # s /\ Touches(sl[w]) \cap Touches(sl[s]) # {}
     THEN [sl[w] EXCEPT !.alone = FALSE] ELSE sl[w]]

\* ---------------------------------------------------------------- caching.set, caching.get
\* cache.set(key, value, ttl) is store.set(key, value, ttl)
CacheSetCall(s, c, k, v, ttl) ==
  /\ FreeCall(s)
  /\ slots' = Put(slots, s, [NewCall("set", c, k, None, ttl) EXCEPT !.data = v, !.pc = "set"])
  /\ UNCHANGED <<store, callbacks, down, refreshThreshold>>

\* A caller that sets a key, sleeps, and gets the key:
\* await cache.set(key, value, ttl); await sleep(n); await cache.get(key)
RoundTripCall(s, c, k, v, ttl) ==
  /\ FreeCall(s)
  /\ slots' = Put(slots, s, [NewCall("setget", c, k, None, ttl) EXCEPT !.data = v, !.pc = "set"])
  /\ UNCHANGED <<store, callbacks, down, refreshThreshold>>

\* The wrap calls whose producer, foreground or background, has been invoked and
\* whose write of its result has not settled yet
Producing(sl) ==
  {w \in DOMAIN sl : sl[w].op \in {"wrap", "mwrap"}
                      /\ (sl[w].pc \in {"fn", "set"} \/ sl[w].rpc \in {"fn", "set"})}

\* cache.del(key) is store.del(key)
CacheDelCall(s, c, k) ==
  /\ FreeCall(s)
  /\ slots' = Put(slots, s, [NewCall("del", c, k, None, NoSpec) EXCEPT !.pc = "del"])
  /\ UNCHANGED <<store, callbacks, down, refreshThreshold>>

CacheDelNothing(s) ==
  /\ slots[s].op = "del" /\ slots[s].pc = "del"
  /\ slots' = Disturb([slots EXCEPT ![s] =
       [slots[s] EXCEPT !.pc = "done", !.status = "fulfilled", !.before = Producing(slots)]], s)
  /\ UNCHANGED <<store, callbacks, down, refreshThreshold>>

\* store.del settles
CacheDel(s) ==
  /\ slots[s].op = "del" /\ slots[s].pc = "del"
  /\ LET r == slots[s]
         c == r.cache
     IN IF c \in down
        THEN /\ slots' = [slots EXCEPT ![s] = [r EXCEPT !.pc = "done", !.status = "rejected", !.err = StoreError]]
             /\ UNCHANGED store
        ELSE /\ store' = [store EXCEPT ![c] = StoreDel(store[c], r.key)]
             /\ slots' = Disturb([slots EXCEPT ![s] =
                  [r EXCEPT !.pc = "done", !.status = "fulfilled", !.before = Producing(slots)]], s)
  /\ UNCHANGED <<callbacks, down, refreshThreshold>>

\* store.set settles; the caller of a round trip goes to sleep
CacheSet(s) ==
  /\ slots[s].op \in {"set", "setget"} /\ slots[s].pc = "set"
  /\ LET r == slots[s]
         c == r.cache
         w == IF c \in down THEN [err |-> StoreError, kv |-> store[c]]
              ELSE StoreSet(store[c], r.key, r.data, r.ttl)
     IN /\ store' = [store EXCEPT ![c] = w.kv]
        /\ slots' = Disturb([slots EXCEPT ![s] =
             IF w.err # NoErr THEN [r EXCEPT !.pc = "done", !.status = "rejected", !.err = w.err]
             ELSE IF r.op = "setget" THEN [r EXCEPT !.pc = "sleep"]
             ELSE [r EXCEPT !.pc = "done", !.status = "fulfilled", !.before = Producing(slots)]], s)
  /\ UNCHANGED <<callbacks, down, refreshThreshold>>

\* The sleeper wakes up and calls cache.get(key), which is store.get(key)
RoundTripGet(s) ==
  /\ slots[s].op = "setget" /\ slots[s].pc = "sleep"
  /\ slots' = [slots EXCEPT ![s].pc = "get"]
  /\ UNCHANGED <<store, callbacks, down, refreshThreshold>>

\* store.get settles
CacheGetSettle(s) ==
  /\ slots[s].op = "setget" /\ slots[s].pc = "get"
  /\ LET r == slots[s]
         g == CacheGet(r.cache, r.key)
     IN slots' = [slots EXCEPT ![s] =
          IF g.threw THEN [r EXCEPT !.pc = "done", !.status = "rejected", !.err = StoreError]
          ELSE [r EXCEPT !.pc = "done", !.status = "fulfilled", !.ret = g.val]]
  /\ UNCHANGED <<store, callbacks, down, refreshThreshold>>

\* ---------------------------------------------------------------- multiCaching writes
FanOutOps == {"mset", "msetMany", "mdel", "mdelMany", "mreset"}

\* caches.map((cache) => ...) starts the call on every member; Promise.all is awaited
FanOut(s, rec) ==
  /\ FreeCall(s)
  /\ slots' = Put(slots, s, [rec EXCEPT !.pc = "all", !.pend = Tiers])
  /\ UNCHANGED <<store, callbacks, down, refreshThreshold>>

\* set(key, data, ttl)
MultiSetCall(s, k, v, ttl) ==
  FanOut(s, [NewCall("mset", 0, k, None, ttl) EXCEPT !.data = v])

\* del(key)
MultiDelCall(s, k) == FanOut(s, NewCall("mdel", 0, k, None, NoSpec))

\* reset()
MultiResetCall(s) == FanOut(s, NewCall("mreset", 0, "k", None, NoSpec))

\* setMany(args, ttl)
MultiSetManyCall(s, args, ttl) ==
  FanOut(s, [NewCall("msetMany", 0, "k", None, ttl) EXCEPT !.args = args])

\* delMany(...keys)
MultiDelManyCall(s, ks) ==
  FanOut(s, [NewCall("mdelMany", 0, "k", None, NoSpec) EXCEPT !.keys = ks])

AllStepCancelling(r, t, e) ==
  LET left == [r EXCEPT !.pend = @ \ {t}]
  IN IF r.pc # "all" THEN left
     ELSE IF e # NoErr THEN [left EXCEPT !.pc = "done", !.status = "rejected", !.err = e, !.pend = {}]
     ELSE IF left.pend = {} THEN [left EXCEPT !.pc = "done", !.status = "fulfilled"]
     ELSE left

AllStepRace(r, t, e) ==
  LET left == [r EXCEPT !.pend = @ \ {t}]
  IN IF r.pc # "all" THEN left
     ELSE IF e # NoErr THEN [left EXCEPT !.pc = "done", !.status = "rejected", !.err = e]
     ELSE [left EXCEPT !.pc = "done", !.status = "fulfilled"]

\* Promise.all: rejected with the first rejection of a member, fulfilled once
\* every member is; the calls on the other members go on after a rejection
AllStep(r, t, e) ==
  LET left == [r EXCEPT !.pend = @ \ {t}]
  IN IF r.pc # "all" THEN left
     ELSE IF e # NoErr THEN [left EXCEPT !.pc = "done", !.status = "rejected", !.err = e]
     ELSE IF left.pend = {} THEN [left EXCEPT !.pc = "done", !.status = "fulfilled"]
     ELSE left

\* The call on member t settles
FanOutStep(s, t) ==
  /\ slots[s].op \in FanOutOps /\ t \in slots[s].pend
  /\ LET r == slots[s]
         w == MemberWrite(t, r)
     IN /\ store' = [store EXCEPT ![t] = w.kv]
        /\ slots' = Disturb([slots EXCEPT ![s] = AllStep(r, t, w.err)], s)
  /\ UNCHANGED <<callbacks, down, refreshThreshold>>

\* ---------------------------------------------------------------- the clock
Age(e) == IF e.ttl = 0 THEN e ELSE IF e.ttl = 1 THEN Absent ELSE [e EXCEPT !.ttl = @ - 1]

\* The time a round trip has let pass since its set settled, as far as it matters
MaxElapsed == LruTtl

Elapse(r) ==
  IF r.op = "setget" /\ r.pc \in {"sleep", "get"} /\ r.elapsed < MaxElapsed
  THEN [r EXCEPT !.elapsed = @ + 1] ELSE r

Tick ==
  /\ \A w \in Live : ~CanRetire(w)
  /\ \E t \in Tiers, k \in Keys : store[t][k].ttl > 0
  /\ store' = [t \in Tiers |-> [k \in Keys |-> Age(store[t][k])]]
  /\ slots' = [w \in Live |-> Elapse(slots[w])]
  /\ UNCHANGED <<callbacks, down, refreshThreshold>>

Retire(s) ==
  /\ CanRetire(s)
  /\ slots' = [w \in Live \ {s} |-> slots[w]]
  /\ UNCHANGED <<store, callbacks, down, refreshThreshold>>

\* One single-tier cache: callers wrap keys with any producer and TTL option
Next ==
  \/ \E s \in Calls, k \in WrapKeys, f \in Producers, t \in TtlSpecs : WrapCall(s, 1, k, f, t)
  \/ \E s \in Live : WrapGet(s)
  \/ \E s \in Live : WrapFn(s)
  \/ \E s \in Live : WrapSet(s)
  \/ \E s \in Live : WrapTtl(s)
  \/ \E s \in Live : CoalesceSettle(s)
  \/ \E s \in Live : RefreshFn(s)
  \/ \E s \in Live : RefreshSet(s)
  \/ \E s \in Live : Retire(s)
  \/ Tick

Spec == Init /\ [][Next]_vars

\* The tiered cache multiCaching([caching(store1), caching(store2, {refreshThreshold})])
\* with any of its members unavailable; callers use it and its members.
InitTiered == InitWith(SUBSET Tiers, {[t \in Tiers |-> IF t = 1 THEN 0 ELSE Threshold]})

TieredProducers == {1, None, Reject}    \* producers handed to the tiered wrap
MemberProducers == {0}                  \* producers handed to a member's wrap

NextTiered ==
  \/ \E s \in Calls, k \in WrapKeys, f \in TieredProducers : MultiWrapCall(s, k, f, FnSpec)
  \/ \E s \in Calls, c \in Tiers, k \in WrapKeys, f \in MemberProducers :
       WrapCall(s, c, k, f, NoSpec)
  \/ \E s \in Calls, k \in WrapKeys : MultiGetCall(s, k)
  \/ \E s \in Live : MultiGetStep(s)
  \/ \E s \in Live : MultiWrapGet(s)
  \/ \E s \in Live : MultiWrapFn(s)
  \/ \E s \in Live, t \in Tiers : MultiWrapSet(s, t)
  \/ \E s \in Live, t \in Tiers : BackgroundSet(s, t)
  \/ \E s \in Live : WrapGet(s)
  \/ \E s \in Live : WrapFn(s)
  \/ \E s \in Live : WrapSet(s)
  \/ \E s \in Live : WrapTtl(s)
  \/ \E s \in Live : CoalesceSettle(s)
  \/ \E s \in Live : RefreshFn(s)
  \/ \E s \in Live : RefreshSet(s)
  \/ \E s \in Live : Retire(s)
  \/ Tick

SpecTiered == InitTiered /\ [][NextTiered]_vars

\* The same, where a Store call that has been made settles in the end
SpecTieredFair ==
  /\ SpecTiered
  /\ \A s \in Calls, t \in Tiers : WF_vars(s \in Live /\ BackgroundSet(s, t))
  /\ \A s \in Calls, t \in Tiers : WF_vars(s \in Live /\ MultiWrapSet(s, t))

\* The step a wrap call waits for: a Store call or the producer settles, or the
\* coalesced execution settles its callers
WrapStep(s) ==
  /\ s \in Live
  /\ \/ WrapGet(s) \/ WrapFn(s) \/ WrapSet(s) \/ WrapTtl(s)
     \/ MultiWrapGet(s) \/ MultiWrapFn(s)
     \/ \E t \in Tiers : MultiWrapSet(s, t)
     \/ CoalesceSettle(s)

\* The tiered cache and its members, where every Store call and every producer
\* invocation a wrap waits for settles in the end
SpecTieredLive ==
  /\ SpecTiered
  /\ \A s \in Slots : WF_vars(WrapStep(s))

\* The tiered get alone, over Stores holding anything a set can have put there
Entries == {Absent} \cup {[val |-> v, ttl |-> 0] : v \in Values}

InitGet ==
  /\ store \in [Tiers -> [Keys -> Entries]]
  /\ callbacks = [k \in Keys |-> NoKey]
  /\ slots = <<>>
  /\ down \in SUBSET Tiers
  /\ refreshThreshold = [t \in Tiers |-> 0]

NextGet ==
  \/ \E s \in Calls, k \in Keys : MultiGetCall(s, k)
  \/ \E s \in Live : MultiGetStep(s)
  \/ \E s \in Live : Retire(s)

SpecGet == InitGet /\ [][NextGet]_vars

\* The tiered getMany alone, over the same Stores
NextGetMany ==
  \/ \E s \in Calls, ks \in KeyLists : MultiGetManyCall(s, ks)
  \/ \E s \in Live : MultiGetManyStep(s)
  \/ \E s \in Live : Retire(s)

SpecGetMany == InitGet /\ [][NextGetMany]_vars

\* The writes of the tiered cache, with any of its members unavailable
SetValues == {1, None}
SetTtls == {NoSpec, 2}
ArgLists == {<< <<"k", 0>>, <<"j", 1>> >>, << <<"j", 1>>, <<"k", None>> >>,
             << <<"k", 0>>, <<"k", 1>> >>}
DelLists == {<<"j">>, <<"k", "j">>}

InitWrites == InitWith(SUBSET Tiers, {[t \in Tiers |-> 0]})

NextWrites ==
  \/ \E s \in Calls, k \in WrapKeys, v \in SetValues, ttl \in SetTtls : MultiSetCall(s, k, v, ttl)
  \/ \E s \in Calls, k \in Keys : MultiDelCall(s, k)
  \/ \E s \in Calls : MultiResetCall(s)
  \/ \E s \in Calls, args \in ArgLists : MultiSetManyCall(s, args, NoSpec)
  \/ \E s \in Calls, ks \in DelLists : MultiDelManyCall(s, ks)
  \/ \E s \in Calls, c \in Tiers, k \in WrapKeys, v \in SetValues : CacheSetCall(s, c, k, v, NoSpec)
  \/ \E s \in Live, t \in Tiers : FanOutStep(s, t)
  \/ \E s \in Live : CacheSet(s)
  \/ \E s \in Live : Retire(s)

SpecWrites == InitWrites /\ [][NextWrites]_vars

\* One single-tier cache over a working Store: callers set a key, wait, and get it
RoundTripValues == {0, 1, None}
RoundTripTtls == {NoSpec, 0, 1, 2}

InitRoundTrip == InitWith({{}}, {[t \in Tiers |-> 0]})

NextRoundTrip ==
  \/ \E s \in Calls, k \in WrapKeys, v \in RoundTripValues, ttl \in RoundTripTtls :
       RoundTripCall(s, 1, k, v, ttl)
  \/ \E s \in Live : CacheSet(s)
  \/ \E s \in Live : RoundTripGet(s)
  \/ \E s \in Live : CacheGetSettle(s)
  \/ \E s \in Live : Retire(s)
  \/ Tick

SpecRoundTrip == InitRoundTrip /\ [][NextRoundTrip]_vars

\* Every operation of the tiered cache, with any of its members unavailable
FaultValues == {1, None}
FaultArgs == {<< <<"k", 0>>, <<"j", 1>> >>}
FaultKeys == {<<"k", "j">>}

NextFaults ==
  \/ \E s \in Calls, k \in WrapKeys, v \in FaultValues : MultiSetCall(s, k, v, NoSpec)
  \/ \E s \in Calls, k \in WrapKeys : MultiDelCall(s, k)
  \/ \E s \in Calls : MultiResetCall(s)
  \/ \E s \in Calls, args \in FaultArgs : MultiSetManyCall(s, args, NoSpec)
  \/ \E s \in Calls, ks \in FaultKeys : MultiDelManyCall(s, ks)
  \/ \E s \in Calls, k \in WrapKeys : MultiGetCall(s, k)
  \/ \E s \in Calls, ks \in FaultKeys : MultiGetManyCall(s, ks)
  \/ \E s \in Calls, k \in WrapKeys, f \in FaultValues : MultiWrapCall(s, k, f, NoSpec)
  \/ \E s \in Live, t \in Tiers : FanOutStep(s, t)
  \/ \E s \in Live : MultiGetStep(s)
  \/ \E s \in Live : MultiGetManyStep(s)
  \/ \E s \in Live : MultiWrapGet(s)
  \/ \E s \in Live : MultiWrapFn(s)
  \/ \E s \in Live, t \in Tiers : MultiWrapSet(s, t)
  \/ \E s \in Live, t \in Tiers : BackgroundSet(s, t)
  \/ \E s \in Live : CoalesceSettle(s)
  \/ \E s \in Live : Retire(s)

SpecFaults == InitWrites /\ [][NextFaults]_vars

\* One single-tier cache: callers wrap a key with a TTL option that is absent, a
\* function of the value, or a literal duration
WrapTtls == {NoSpec, FnSpec, 1}

NextTtl ==
  \/ \E s \in Calls, k \in WrapKeys, f \in Values, t \in WrapTtls : WrapCall(s, 1, k, f, t)
  \/ \E s \in Live : WrapGet(s)
  \/ \E s \in Live : WrapFn(s)
  \/ \E s \in Live : WrapSet(s)
  \/ \E s \in Live : WrapTtl(s)
  \/ \E s \in Live : CoalesceSettle(s)
  \/ \E s \in Live : RefreshFn(s)
  \/ \E s \in Live : RefreshSet(s)
  \/ \E s \in Live : Retire(s)

SpecTtl == Init /\ [][NextTtl]_vars

\* Two single-tier caches caching(storeA) and caching(storeB) in one process, over
\* working Stores and without refresh threshold: callers wrap one key on either
NextTwoCaches ==
  \/ \E s \in Calls, c \in Tiers, k \in WrapKeys, f \in Values : WrapCall(s, c, k, f, NoSpec)
  \/ \E s \in Live : WrapGet(s)
  \/ \E s \in Live : WrapFn(s)
  \/ \E s \in Live : WrapSet(s)
  \/ \E s \in Live : CoalesceSettle(s)
  \/ \E s \in Live : Retire(s)

SpecTwoCaches == InitRoundTrip /\ [][NextTwoCaches]_vars

\* One single-tier cache over a working Store: callers wrap a key, set it and
\* delete it, in any interleaving
RaceProducers == {1}
RaceValues == {0}
RaceTtls == {1}

NextRace ==
  \/ \E s \in Calls, k \in WrapKeys, f \in RaceProducers : WrapCall(s, 1, k, f, NoSpec)
  \/ \E s \in Calls, k \in WrapKeys, v \in RaceValues, ttl \in RaceTtls : CacheSetCall(s, 1, k, v, ttl)
  \/ \E s \in Calls, k \in WrapKeys : CacheDelCall(s, 1, k)
  \/ \E s \in Live : WrapGet(s)
  \/ \E s \in Live : WrapFn(s)
  \/ \E s \in Live : WrapSet(s)
  \/ \E s \in Live : WrapTtl(s)
  \/ \E s \in Live : CoalesceSettle(s)
  \/ \E s \in Live : RefreshFn(s)
  \/ \E s \in Live : RefreshSet(s)
  \/ \E s \in Live : CacheSet(s)
  \/ \E s \in Live : CacheDel(s)
  \/ \E s \in Live : Retire(s)

SpecRace == Init /\ [][NextRace]_vars

\* ================================================================ claims
\* The single-tier wrap calls, and those among them that ran the inner function
IsWrap(s) == slots[s].op = "wrap"
Led(s) == IsWrap(s) /\ slots[s].leader = 0 /\ slots[s].pc = "done"
Waited(w, s) == slots[w].op \in {"wrap", "mwrap"} /\ slots[w].leader = s /\ slots[w].pc = "done"
SameOutcome(w, s) ==
  /\ slots[w].status = slots[s].status
  /\ slots[w].ret = slots[s].ret
  /\ slots[w].err = slots[s].err

\* C1: the wrap calls in flight together on one key of a single-tier cache invoke
\* the producer at most once between them; when the key was absent the execution
\* invoked it exactly once, every call coalesced onto it settles exactly as the
\* execution does without invoking its own producer, and the outcome is the
\* produced value whenever the produced value is cacheable.
C1_OneProducerForAll ==
  /\ \A k \in Keys :
       LET group == {s \in Live : IsWrap(s) /\ slots[s].key = k /\ slots[s].cache = 1}
       IN /\ Cardinality({s \in group : slots[s].fnCalls > 0}) <= 1
          /\ \A s \in group : slots[s].fnCalls <= 1
  /\ \A s \in Live : Led(s) /\ slots[s].value = None =>
       /\ slots[s].fnCalls = 1
       /\ slots[s].fn \in Values => slots[s].status = "fulfilled" /\ slots[s].ret = slots[s].fn
       /\ \A w \in Live : Waited(w, s) => SameOutcome(w, s) /\ slots[w].fnCalls = 0

C1_Witness ==
  \E s, w \in Live :
    /\ Led(s) /\ slots[s].value = None /\ slots[s].fnCalls = 1
    /\ Waited(w, s) /\ IsWrap(w)
    /\ slots[w].status = "fulfilled" /\ slots[w].ret = slots[s].fn

\* C2: whatever caches the calls go through, at most one wrap execution, and so at
\* most one foreground producer, is in flight for a key; a wrap arriving meanwhile
\* is queued on it, settles exactly as it does, and invokes no producer of its own,
\* in the foreground or in the background, whatever producer it passed.
C2_SingleFlight ==
  /\ \A k \in Keys :
       /\ Cardinality({s \in Live : Executing(s) /\ slots[s].key = k}) <= 1
       /\ Cardinality({s \in Live : slots[s].pc = "fn" /\ slots[s].key = k}) <= 1
  /\ \A w \in Live : slots[w].pc = "enqueued" =>
       /\ Executing(slots[w].leader) /\ slots[slots[w].leader].key = slots[w].key
       /\ slots[w].fnCalls = 0
  /\ \A w, s \in Live : Waited(w, s) =>
       /\ Led(s) \/ (slots[s].op = "mwrap" /\ slots[s].pc = "done")
       /\ SameOutcome(w, s)
       /\ slots[w].fnCalls = 0 /\ slots[w].bgCalls = 0 /\ slots[w].setCalls = 0

\* a tiered wrap handed a failing producer got the value of the one in flight
C2_Witness ==
  \E w, s \in Live :
    /\ Waited(w, s) /\ slots[w].op = "mwrap" /\ slots[s].op = "mwrap"
    /\ slots[w].fn = Reject /\ slots[s].fn = 1 /\ slots[s].fnCalls = 1
    /\ slots[w].status = "fulfilled" /\ slots[w].ret = 1

\* C3: when the producer of a foreground wrap fails, the execution and every call
\* coalesced onto it are rejected with the producer's own error, and the execution
\* never calls Store.set.
C3_ProducerFailure ==
  \A s \in Live : Led(s) /\ slots[s].fnCalls = 1 /\ slots[s].fn = Reject =>
    /\ slots[s].status = "rejected" /\ slots[s].err = ProducerError
    /\ slots[s].setCalls = 0
    /\ \A w \in Live : Waited(w, s) =>
         slots[w].status = "rejected" /\ slots[w].err = ProducerError /\ slots[w].setCalls = 0

C3_Witness ==
  \E s, w \in Live :
    /\ Led(s) /\ slots[s].fnCalls = 1 /\ slots[s].fn = Reject
    /\ Waited(w, s) /\ slots[w].err = ProducerError
    /\ store[1][slots[s].key].val = None

\* C4: a wrap that finds the key absent invokes the producer once, and when the
\* produced value is cacheable Store.set writes it and the call returns it; a wrap
\* that finds the key present returns the value the Store holds and does not
\* invoke the producer in the foreground.
C4_Miss(s) ==
  Led(s) /\ slots[s].value = None =>
    /\ slots[s].fnCalls = 1
    /\ slots[s].fn \in Values =>
         slots[s].status = "fulfilled" /\ slots[s].ret = slots[s].fn /\ slots[s].setCalls = 1

C4_GetStep(s) ==
  LET c == slots[s].cache
      k == slots[s].key
  IN WrapGet(s) =>
       IF store[c][k].val = None
       THEN slots'[s].pc = "fn" /\ slots'[s].fnCalls = 1
       ELSE /\ slots'[s].fnCalls = 0 /\ slots'[s].value = store[c][k].val
            /\ slots'[s].pc = "ret" => slots'[s].ret = store[c][k].val

C4_SetStep(s) ==
  WrapSet(s) /\ slots[s].result \in Values =>
    store'[slots[s].cache][slots[s].key].val = slots[s].result

C4_Hit(s) ==
  Led(s) /\ slots[s].value # None =>
    slots[s].fnCalls = 0 /\ slots[s].status = "fulfilled" /\ slots[s].ret = slots[s].value

C4_MissThenHit ==
  /\ [](\A s \in Live : C4_Miss(s) /\ C4_Hit(s))
  /\ [][\A s \in Live : C4_GetStep(s) /\ C4_SetStep(s)]_vars

\* a second wrap with another producer has returned the value the first one cached
C4_Witness ==
  \E s \in Live :
    /\ Led(s) /\ slots[s].value \in Values /\ slots[s].fn \in Values
    /\ slots[s].fn # slots[s].value
    /\ slots[s].ret = slots[s].value /\ slots[s].fnCalls = 0 /\ slots[s].bgCalls = 0

\* C5: with a refresh threshold configured, a wrap hit whose Store.ttl(key) is at
\* least 0 and below the threshold has started one background producer invocation
\* and has returned the cached value by then: the call is never seen waiting.
C5_RefreshAhead ==
  \A s \in Live :
    IsWrap(s) /\ slots[s].remainingTtl >= 0
      /\ slots[s].remainingTtl < refreshThreshold[slots[s].cache] =>
        /\ slots[s].bgCalls = 1
        /\ slots[s].pc \in {"ret", "done"}
        /\ slots[s].status = "fulfilled" /\ slots[s].ret = slots[s].value

\* the caller has its stale value while the background producer is still running
C5_Witness ==
  \E s \in Live :
    /\ IsWrap(s) /\ slots[s].pc = "done" /\ slots[s].rpc = "fn"
    /\ slots[s].remainingTtl \in 0..(Threshold - 1)
    /\ slots[s].ret = slots[s].value /\ slots[s].fn # slots[s].value

C7_BackgroundFailureHandled ==
  \A s \in Live :
    /\ slots[s].bgCalls = 1 /\ slots[s].pc = "done" =>
         slots[s].status = "fulfilled" /\ slots[s].ret = slots[s].value
    /\ slots[s].unhandled = NoErr

\* C8: when the background store.set of a refresh succeeds the Store holds the
\* refresh producer's result for the key, so that the next Store.get returns it
\* and not the stale value.
C8_RefreshStep(s) ==
  RefreshSet(s) /\ slots'[s].unhandled = NoErr =>
    /\ slots[s].rres = slots[s].fn
    /\ StoreGet(slots[s].cache, slots[s].key)' = slots[s].fn

C8_RefreshedValueStored == [][\A s \in Live : C8_RefreshStep(s)]_vars

\* wrap returned the stale 0, and its refresh has stored 1
C8_Witness ==
  \E s \in Live :
    /\ IsWrap(s) /\ slots[s].rpc = "done" /\ slots[s].unhandled = NoErr
    /\ slots[s].ret = 0 /\ slots[s].fn = 1
    /\ StoreGet(slots[s].cache, slots[s].key) = 1

\* The value of the first member that is up and holds the key, or undefined
RECURSIVE FirstHeldFrom(_, _)
FirstHeldFrom(t, k) ==
  IF t > NumTiers THEN None
  ELSE IF t \notin down /\ store[t][k].val # None THEN store[t][k].val
  ELSE FirstHeldFrom(t + 1, k)

IsMultiGet(s) == slots[s].op = "mget"

\* C9: the tiered get returns the value of the lowest-index member that holds the
\* key, a member whose get throws counting as holding nothing; it is fulfilled
\* with undefined when no member answers, and it is never rejected.
C9_FirstDefinedTier ==
  \A s \in Live : IsMultiGet(s) =>
    /\ slots[s].status # "rejected" /\ slots[s].err = NoErr
    /\ slots[s].pc = "done" =>
         slots[s].status = "fulfilled" /\ slots[s].ret = FirstHeldFrom(1, slots[s].key)

\* the first member threw and the second one answered; every member threw
C9_Witness ==
  \E s \in Live :
    /\ IsMultiGet(s) /\ slots[s].pc = "done" /\ slots[s].status = "fulfilled"
    /\ 1 \in down /\ 2 \notin down /\ store[1][slots[s].key].val # None
    /\ slots[s].ret = store[2][slots[s].key].val /\ slots[s].ret # None
    /\ slots[s].ret # store[1][slots[s].key].val

\* C10 as claimed: once a tiered get has returned a value found in a lower-priority
\* member and its background work is over, every working member of higher
\* priority holds that value too.
C10_GetPromotes ==
  \A s \in Live :
    IsMultiGet(s) /\ CanRetire(s) /\ slots[s].ret # None =>
      \A t \in 1..(slots[s].i - 1) : t \in down \/ store[t][slots[s].key].val = slots[s].ret

\* C10 amended: the tiered get returns the value found in the lower-priority member
\* and writes to no member: the members of higher priority still do not hold the
\* key afterwards (promotion is done by the tiered wrap only).
C10_GetStep(s) == MultiGetStep(s) => store' = store

C10_GetDoesNotPromote ==
  /\ [][\A s \in Live : C10_GetStep(s)]_vars
  /\ [](\A s \in Live :
          IsMultiGet(s) /\ slots[s].pc = "done" /\ slots[s].ret # None =>
            /\ slots[s].ret = store[slots[s].i][slots[s].key].val
            /\ \A t \in 1..(slots[s].i - 1) : t \in down \/ store[t][slots[s].key].val = None)

C10_Witness ==
  \E s \in Live :
    /\ IsMultiGet(s) /\ CanRetire(s) /\ slots[s].i = 2 /\ down = {}
    /\ slots[s].ret = store[2][slots[s].key].val /\ slots[s].ret # None
    /\ store[1][slots[s].key].val = None

IsMultiGetMany(s) == slots[s].op = "mgetMany"

\* the keys of a getMany whose slot is still undefined
Unresolved(r) == {r.keys[n] : n \in {m \in 1..Len(r.keys) : r.values[m] = None}}

\* C14: the batch read the tiered getMany sends to a member holds only the keys
\* that are still unresolved when it is sent, never a key a member of higher
\* priority has already resolved.
C14_Step(s) ==
  MultiGetManyStep(s) =>
    LET sent == slots'[s].asked[Len(slots'[s].asked)].keys
    IN Range(sent) \subseteq Unresolved(slots[s])

C14_OnlyUnresolvedAsked == [][\A s \in Live : C14_Step(s)]_vars

\* some member of priority above t is up and holds k
HeldAbove(t, k) == \E u \in 1..(t - 1) : u \notin down /\ store[u][k].val # None

\* C15: the tiered getMany is never rejected; its array has one slot per input key,
\* in input order, holding the value of the lowest-index member that is up and has
\* the key, or undefined when there is none; the members are read in priority
\* order, and none is read once every slot is filled.
C15_AlignedFirstDefined ==
  \A s \in Live : IsMultiGetMany(s) =>
    LET r == slots[s] IN
    /\ r.status # "rejected"
    /\ Len(r.values) = Len(r.keys)
    /\ \A n \in 1..Len(r.asked) :
         /\ r.asked[n].tier = n
         /\ \E m \in 1..Len(r.keys) : ~HeldAbove(n, r.keys[m])
    /\ r.pc = "done" =>
         /\ r.status = "fulfilled"
         /\ \A m \in 1..Len(r.keys) : r.values[m] = FirstHeldFrom(1, r.keys[m])
         /\ Len(r.asked) < NumTiers => AllDefined(r.values)

\* both members hold both keys with different values and the first one is read
\* alone; the first member is down and the second one fills the array
C15_Witness ==
  \E s, w \in Live :
    /\ IsMultiGetMany(s) /\ slots[s].pc = "done" /\ slots[s].keys = <<"j", "k">>
    /\ IsMultiGetMany(w) /\ slots[w].pc = "done" /\ slots[w].keys = <<"k", "k">>
    /\ down = {}
    /\ store[1]["j"].val = 1 /\ store[1]["k"].val = None
    /\ store[2]["j"].val = 0 /\ store[2]["k"].val = 0
    /\ slots[s].values = <<1, 0>> /\ Len(slots[s].asked) = 2
    /\ slots[w].values = <<0, 0>>

IsFanOut(s) == slots[s].op \in FanOutOps

\* C16: a tiered set is not settled while the set of one of its members is still
\* pending; in particular it is rejected only once every member's set has settled.
C16_SettlesAfterAllWrites ==
  \A s \in Live : slots[s].op = "mset" /\ slots[s].pc = "done" => slots[s].pend = {}

\* the value the last pair for k in args carries
RECURSIVE LastValue(_, _)
LastValue(args, k) ==
  IF args[Len(args)][1] = k THEN args[Len(args)][2]
  ELSE LastValue(SubSeq(args, 1, Len(args) - 1), k)

\* what every member holds after the tiered write r, left alone, has resolved
Holds(t, r) ==
  IF r.op = "mset" THEN store[t][r.key] = [val |-> r.data, ttl |-> IF r.ttl = NoSpec THEN LruTtl ELSE r.ttl]
  ELSE IF r.op = "msetMany"
    THEN \A k \in Touches(r) :
           store[t][k] = [val |-> LastValue(r.args, k), ttl |-> IF r.ttl = NoSpec THEN LruTtl ELSE r.ttl]
  ELSE \A k \in Touches(r) : store[t][k].val = None

\* C17: once a tiered set or setMany has resolved, every member holds the value(s)
\* written, and once a tiered del, delMany or reset has resolved no member holds
\* the key(s) concerned, as long as no other call has written those keys meanwhile.
C17_AllTiersWritten ==
  \A s \in Live :
    IsFanOut(s) /\ slots[s].pc = "done" /\ slots[s].status = "fulfilled" /\ slots[s].alone =>
      /\ slots[s].pend = {}
      /\ \A t \in Tiers : Holds(t, slots[s])

\* a setMany naming a key twice has left its last value in both members while a
\* del of the other key, started on top of it, has emptied that key
C17_Witness ==
  \E s, w \in Live :
    /\ slots[s].op = "msetMany" /\ slots[s].pc = "done" /\ slots[s].status = "fulfilled"
    /\ slots[s].alone /\ slots[s].args = << <<"k", 0>>, <<"k", 1>> >>
    /\ \A t \in Tiers : store[t]["k"].val = 1
    /\ slots[w].op = "mdel" /\ slots[w].key = "j" /\ slots[w].pc = "done"
    /\ slots[w].status = "fulfilled" /\ slots[w].alone
    /\ \A t \in Tiers : store[t]["j"].val = None

\* the time a value set with ttl lives: undefined is the Store's default, 0 is
\* no expiry
C19_Lifetime(ttl) == IF ttl = NoSpec THEN LruTtl ELSE ttl

C19_GetStep(s) ==
  CacheGetSettle(s) /\ slots[s].alone =>
    LET r == slots[s]
        life == C19_Lifetime(r.ttl)
    IN /\ slots'[s].status = "fulfilled"
       /\ slots'[s].ret = IF life = 0 \/ r.elapsed < life THEN r.data ELSE None

\* C19: set(key, value, ttl) followed by get(key), no other write to the key in
\* between, returns value while less than ttl has elapsed since the set, and
\* undefined once ttl has elapsed.
C19_SetThenGet == [][\A s \in Live : C19_GetStep(s)]_vars

\* set with ttl 2, two ticks, get: undefined
C19_Witness ==
  \E s \in Live :
    /\ slots[s].op = "setget" /\ slots[s].pc = "done" /\ slots[s].alone
    /\ slots[s].data = 1 /\ slots[s].ttl = 2 /\ slots[s].elapsed = 2
    /\ slots[s].status = "fulfilled" /\ slots[s].ret = None

\* some value of the call is not cacheable
HasUncacheable(r) ==
  IF r.op = "msetMany" THEN \E n \in 1..Len(r.args) : ~(r.args[n][2] # None)
  ELSE r.op \in {"set", "mset"} /\ r.data = None

\* C20: a set, on a single-tier cache or on the tiered cache, and a setMany whose
\* value is not cacheable are rejected, with the 'no cacheable value' error when
\* the Store is up; the error is never swallowed, and no Store ever holds the
\* rejected value.
C20_UncacheableRejected ==
  /\ \A s \in Live : HasUncacheable(slots[s]) =>
       /\ slots[s].status # "fulfilled"
       /\ slots[s].pc = "done" =>
            /\ slots[s].status = "rejected"
            /\ slots[s].err \in {Uncacheable, StoreError}
            /\ down = {} => slots[s].err = Uncacheable
  /\ \A t \in Tiers, k \in Keys : store[t][k].val = None => store[t][k] = Absent

\* a tiered set of undefined and a setMany with an undefined value are both
\* rejected; the pair before the undefined one is stored
C20_Witness ==
  \E s, w \in Live :
    /\ slots[s].op = "mset" /\ slots[s].data = None
    /\ slots[s].pc = "done" /\ slots[s].err = Uncacheable /\ slots[s].pend = {}
    /\ slots[w].op = "msetMany" /\ slots[w].pc = "done" /\ slots[w].err = Uncacheable
    /\ slots[w].pend = {}
    /\ \A t \in Tiers : store[t]["j"].val = 1 /\ store[t]["k"].val = None

\* The tiered wrap calls that ran the lookup, and how it ended
IsMultiWrap(s) == slots[s].op = "mwrap" /\ slots[s].leader = 0
FoundAt(s) == s \in Live /\ IsMultiWrap(s) /\ slots[s].value # None
NotFound(s) == IsMultiWrap(s) /\ slots[s].i > NumTiers

\* the entry a tiered wrap writes for value v
WrapEntry(r, v) ==
  [val |-> v, ttl |-> IF r.ttl = FnSpec THEN TtlFn(v) ELSE IF r.ttl = NoSpec THEN LruTtl ELSE r.ttl]

\* a found value is returned at once: no producer in the foreground, and the
\* backfills may still be pending
C11_Returned(s) ==
  FoundAt(s) =>
    /\ slots[s].fnCalls = 0 /\ slots[s].setCalls = 0
    /\ slots[s].pc \in {"ret", "done"}
    /\ slots[s].status = "fulfilled" /\ slots[s].ret = slots[s].value
    /\ slots[s].pend \subseteq 1..(slots[s].i - 1)

C11_BackfillStep(s, t) ==
  BackgroundSet(s, t) /\ slots[s].value # None =>
    IF t \in down THEN store'[t] = store[t]
    ELSE store'[t][slots[s].key] = WrapEntry(slots[s], slots[s].value)

C12_Miss(s) ==
  NotFound(s) =>
    LET r == slots[s] IN
    /\ r.fnCalls = 1 /\ r.value = None
    /\ r.status = "fulfilled" =>
         r.ret = r.fn /\ r.result = r.fn /\ r.setCalls = 1 /\ r.pend = {}
    /\ r.fn = Reject =>
         /\ r.setCalls = 0 /\ r.pend = {}
         /\ r.pc \in {"ret", "done"} => r.status = "rejected" /\ r.err = ProducerError

C12_SetStep(s, t) ==
  MultiWrapSet(s, t) /\ t \notin down /\ slots[s].result # None =>
    store'[t][slots[s].key] = WrapEntry(slots[s], slots[s].result)

\* C12: a tiered wrap that finds the key in no member, the members that throw on
\* the read included, invokes the producer exactly once; it writes the result to
\* every member with the TTL resolved against the result and returns the result
\* only when every write is done; when the producer fails the call is rejected
\* with the producer's error and makes no write.
C12_MissFansOut ==
  /\ [](\A s \in Live : C12_Miss(s))
  /\ [][\A s \in Live, t \in Tiers : C12_SetStep(s, t)]_vars

C12_Witness ==
  \E s \in Live :
    /\ NotFound(s) /\ slots[s].pc = "done" /\ slots[s].status = "fulfilled"
    /\ slots[s].fn = 1 /\ slots[s].ret = 1
    /\ \A t \in Tiers : store[t][slots[s].key] = [val |-> 1, ttl |-> 2]

\* C13: when a tiered wrap finds the key at a member that has a refresh threshold,
\* and the key's remaining TTL there is non-negative and below the threshold, the
\* member's own wrap logic runs for the key: the member wrap the tiered wrap
\* starts executes (or joins a wrap of that member that does), so that a
\* background producer is invoked for that member.
C13_Step(s) ==
  LET r == slots[s]
      n == s + MaxCalls
  IN MultiWrapGet(s) /\ slots'[s].value # None
       /\ refreshThreshold[r.i] # 0
       /\ store[r.i][r.key].ttl \in 1..(refreshThreshold[r.i] - 1) =>
         \/ slots'[n].pc = "get"
         \/ slots'[n].pc = "enqueued" /\ slots'[slots'[n].leader].op = "wrap"

C13_MemberRefreshRuns == [][\A s \in Live : C13_Step(s)]_vars

\* the errors the members of a tiered write can throw
MemberErrors(r) ==
  (IF down # {} THEN {StoreError} ELSE {}) \cup
  (IF HasUncacheable(r) /\ down # Tiers THEN {Uncacheable} ELSE {})

C18_WriteStep(s, t) ==
  FanOutStep(s, t) /\ slots[s].pc = "all" /\ MemberWrite(t, slots[s]).err # NoErr =>
    /\ slots'[s].pc = "done" /\ slots'[s].status = "rejected"
    /\ slots'[s].err = MemberWrite(t, slots[s]).err

C18_LookupStep(s) ==
  MultiWrapGet(s) => slots'[s].status # "rejected" /\ slots'[s].err = NoErr

\* C18: a tiered set, del, reset, setMany or delMany one of whose members throws is
\* rejected with the error that member threw; a tiered get or getMany is never
\* rejected, and a tiered wrap is never rejected by its lookup: when it is
\* rejected the lookup had ended and the producer had been called.
C18_WritesFailReadsDoNot ==
  /\ [][\A s \in Live, t \in Tiers : C18_WriteStep(s, t)]_vars
  /\ [][\A s \in Live : C18_LookupStep(s)]_vars
  /\ [](\A s \in Live :
          /\ IsFanOut(s) /\ slots[s].pc = "done" =>
               IF MemberErrors(slots[s]) = {}
               THEN slots[s].status = "fulfilled" /\ slots[s].err = NoErr
               ELSE slots[s].status = "rejected" /\ slots[s].err \in MemberErrors(slots[s])
          /\ slots[s].op \in {"mget", "mgetMany"} =>
               slots[s].status # "rejected" /\ slots[s].err = NoErr
          /\ IsMultiWrap(s) /\ slots[s].status = "rejected" =>
               NotFound(s) /\ slots[s].fnCalls = 1)

\* with the first member unavailable a getMany has answered from the second one
\* and a set has been rejected with the first member's error
C18_Witness ==
  \E s, w \in Live :
    /\ down = {1}
    /\ slots[s].op = "mgetMany" /\ slots[s].pc = "done" /\ slots[s].status = "fulfilled"
    /\ Len(slots[s].asked) = 2 /\ slots[s].values[1] = 1
    /\ slots[w].op = "mset" /\ slots[w].pc = "done" /\ slots[w].status = "rejected"
    /\ slots[w].err = StoreError /\ slots[w].data = 1

\* C21: a key is absent only when the Store answers undefined.  A key holding a
\* defined value, the falsy 0 included, is a hit: the single-tier wrap keeps it,
\* returns it and does not invoke the producer in the foreground; the tiered get
\* returns it from the tier that holds it; the tiered wrap's walk stops at that tier.
C21_Held(t, k) == t \notin down /\ store[t][k].val \in Values

C21_WrapStep(s) ==
  LET r == slots[s] IN
  WrapGet(s) /\ C21_Held(r.cache, r.key) =>
    /\ slots'[s].value = store[r.cache][r.key].val
    /\ slots'[s].fnCalls = 0 /\ slots'[s].pc \in {"ttl", "ret"}
    /\ slots'[s].pc = "ret" => slots'[s].status = "fulfilled" /\ slots'[s].ret = store[r.cache][r.key].val

C21_GetStep(s) ==
  LET r == slots[s] IN
  MultiGetStep(s) /\ C21_Held(r.i, r.key) =>
    /\ slots'[s].pc = "done" /\ slots'[s].status = "fulfilled"
    /\ slots'[s].ret = store[r.i][r.key].val /\ slots'[s].i = r.i

C21_WalkStep(s) ==
  LET r == slots[s] IN
  MultiWrapGet(s) /\ C21_Held(r.i, r.key) =>
    /\ slots'[s].pc = "ret" /\ slots'[s].status = "fulfilled"
    /\ slots'[s].ret = store[r.i][r.key].val /\ slots'[s].i = r.i
    /\ slots'[s].fnCalls = 0

C21_DefinedIsHit ==
  /\ [][\A s \in Live : C21_WrapStep(s) /\ C21_GetStep(s) /\ C21_WalkStep(s)]_vars
  /\ [](\A s \in Live : slots[s].op \in {"wrap", "mwrap"} /\ slots[s].leader = 0
          /\ slots[s].pc = "done" /\ slots[s].value # None =>
            slots[s].status = "fulfilled" /\ slots[s].ret = slots[s].value /\ slots[s].fnCalls = 0)

\* a tiered wrap handed a producer of 1 found 0 at the first tier and returned it
C21_Witness ==
  /\ \E s \in Live :
       /\ slots[s].op = "mwrap" /\ slots[s].pc = "done" /\ slots[s].leader = 0
       /\ slots[s].fn = 1 /\ slots[s].ret = 0 /\ slots[s].i = 1 /\ slots[s].fnCalls = 0
  /\ store[1]["k"].val = 0

\* C22: on a wrap miss the TTL option is resolved once, against the value the
\* producer has just given: a TTL function is called once, with that value, and
\* Store.set gets its result; a literal is passed as it is; without the option the
\* Store's default TTL applies.  A wrap that finds the key, on a cache without a
\* refresh threshold, does not call the TTL function.
C22_Expected(r, v) ==
  IF r.ttl = FnSpec THEN TtlFn(v) ELSE IF r.ttl = NoSpec THEN LruTtl ELSE r.ttl

C22_FnStep(s) ==
  LET r == slots[s] IN
  WrapFn(s) /\ r.fn # Reject =>
    slots'[s].ttlArgs = IF r.ttl = FnSpec THEN <<r.fn>> ELSE <<>>

C22_SetStep(s) ==
  LET r == slots[s] IN
  WrapSet(s) /\ isCacheable(r.result) =>
    /\ store'[r.cache][r.key] = [val |-> r.result, ttl |-> C22_Expected(r, r.result)]
    /\ slots'[s].ttlArgs = r.ttlArgs

C22_ResolvedOncePerMiss ==
  /\ [][\A s \in Live : C22_FnStep(s) /\ C22_SetStep(s)]_vars
  /\ [](\A s \in Live : IsWrap(s) =>
          /\ Len(slots[s].ttlArgs) <= 1
          /\ slots[s].value = None => Len(slots[s].ttlArgs) <= slots[s].fnCalls
          /\ slots[s].value # None /\ refreshThreshold[slots[s].cache] = 0 =>
               slots[s].ttlArgs = <<>>)

\* a wrap with a TTL function found the 1 an earlier wrap had stored with the
\* function's TTL for 1, on a cache without a refresh threshold
C22_Witness ==
  \E s \in Live :
    /\ Led(s) /\ slots[s].ttl = FnSpec /\ slots[s].value = 1 /\ slots[s].ret = 1
    /\ refreshThreshold[1] = 0 /\ slots[s].ttlArgs = <<>>
    /\ store[1][slots[s].key] = [val |-> 1, ttl |-> TtlFn(1)]

\* C23: the coalescing registry has an entry for a key exactly while a wrap
\* execution for the key is in flight, and the entry lists the calls queued on it;
\* the entry is gone once the execution has settled, with a value or with an
\* error, so a wrap issued when no execution is in flight, a failed one having
\* settled or not, runs its own lookup, and invokes its own producer on a miss.
C23_InFlight(k) == \E s \in Live : Executing(s) /\ slots[s].key = k

C23_CallStep(s) ==
  s \notin Live /\ s \in DOMAIN slots' /\ slots'[s].op = "wrap" /\ ~C23_InFlight(slots'[s].key) =>
    slots'[s].pc = "get" /\ slots'[s].leader = 0

C23_LookupStep(s) ==
  WrapGet(s) /\ store[slots[s].cache][slots[s].key].val = None =>
    slots'[s].pc = "fn" /\ slots'[s].fnCalls = 1

C23_EntryWhileInFlight ==
  /\ [](\A k \in Keys :
          /\ callbacks[k] # NoKey <=> C23_InFlight(k)
          /\ \A w \in Live : slots[w].pc = "enqueued" /\ slots[w].key = k =>
               w \in Range(Queue(k)))
  /\ [][\A s \in Calls : C23_CallStep(s)]_vars
  /\ [][\A s \in Live : C23_LookupStep(s)]_vars

\* an execution and the call queued on it have failed with the producer's error,
\* and the registry holds nothing for the key
C23_Witness ==
  \E s, w \in Live :
    /\ Led(s) /\ slots[s].status = "rejected" /\ slots[s].err = ProducerError
    /\ Waited(w, s) /\ slots[w].status = "rejected"
    /\ callbacks[slots[s].key] = NoKey

\* C24: the background refresh of a single-tier wrap writes the value the
\* producer has just given with the TTL that was resolved against the value found
\* in the cache, the one the call returned; the TTL function is called once, with
\* the found value, and not again with the refreshed one.
C24_RefreshStep(s) ==
  LET r == slots[s] IN
  RefreshSet(s) /\ isCacheable(r.rres) =>
    /\ store'[r.cache][r.key] = [val |-> r.rres, ttl |-> C22_Expected(r, r.value)]
    /\ slots'[s].ttlArgs = r.ttlArgs

C24_RefreshKeepsFoundTtl ==
  /\ [][\A s \in Live : C24_RefreshStep(s)]_vars
  /\ [](\A s \in Live : IsWrap(s) /\ slots[s].rpc # "none" =>
          /\ slots[s].value # None /\ slots[s].fnCalls = 0
          /\ slots[s].pc = "done" => slots[s].ret = slots[s].value
          /\ slots[s].ttlArgs = IF slots[s].ttl = FnSpec THEN <<slots[s].value>> ELSE <<>>)

\* the cached 0 was refreshed with 1 and the TTL of the new entry is the one the
\* TTL function gives for 0, not the one it gives for 1
C24_Witness ==
  \E s \in Live :
    /\ IsWrap(s) /\ slots[s].rpc = "done" /\ slots[s].ttl = FnSpec
    /\ slots[s].value = 0 /\ slots[s].ret = 0 /\ slots[s].rres = 1
    /\ slots[s].ttlArgs = <<0>>
    /\ store[1][slots[s].key] = [val |-> 1, ttl |-> TtlFn(0)]
    /\ TtlFn(0) # TtlFn(1)

\* C25: two cache instances over two Stores do not meet in the coalescing
\* registry: a wrap is queued only on an execution of its own cache, so a wrap
\* that has resolved has looked its own Store up, has run its own producer when
\* the key was cold there, and has left the key in its own Store.
C25_OwnCacheOnly ==
  \A w \in Live : IsWrap(w) =>
    /\ slots[w].leader # 0 => slots[slots[w].leader].cache = slots[w].cache
    /\ slots[w].pc = "done" /\ slots[w].status = "fulfilled" =>
         store[slots[w].cache][slots[w].key].val # None

\* The set and del calls that have resolved, with no other set or del on the key
\* settling since they were issued
C26_Resolved(d) ==
  /\ slots[d].op \in {"set", "del"} /\ slots[d].pc = "done"
  /\ slots[d].status = "fulfilled" /\ slots[d].alone

C26_WriteBack(s) == WrapSet(s) \/ RefreshSet(s)

\* C26 as claimed: a set or del that has resolved is not undone by a producer
\* invoked before it resolved: the write of that producer's result, settling
\* afterwards, leaves the key as the set or del left it.
C26_NeverUndone ==
  [][\A d, s \in Live :
       C26_Resolved(d) /\ s \in slots[d].before /\ C26_WriteBack(s) =>
         store'[slots[d].cache][slots[d].key].val = store[slots[d].cache][slots[d].key].val]_vars

\* C26: a set or del takes effect when it settles, and it can be undone by a
\* producer invoked before it resolved: the write of a producer's result takes
\* effect whenever it settles, so a write settling after the set or del replaces
\* what the set or del left with the producer's result.
C26_SettleStep(d) ==
  (CacheSet(d) \/ CacheDel(d)) /\ slots'[d].status = "fulfilled" =>
    store'[slots[d].cache][slots[d].key].val =
      IF slots[d].op = "set" THEN slots[d].data ELSE None

C26_LastWriteWins ==
  /\ [][\A d \in Live : C26_SettleStep(d)]_vars
  /\ [][\A d, s \in Live :
          C26_Resolved(d) /\ s \in slots[d].before /\ C26_WriteBack(s) =>
            store'[slots[d].cache][slots[d].key].val = slots[s].fn]_vars

\* del has resolved while a producer was running, and the key is back
C26_Witness ==
  \E d \in Live, w \in Live :
    /\ C26_Resolved(d) /\ slots[d].op = "del" /\ w \in slots[d].before
    /\ slots[w].pc = "done" /\ slots[w].rpc \in {"none", "done"}
    /\ store[1][slots[d].key].val = slots[w].fn

\* The background refreshes in flight for key k of the single-tier cache
C27_Refreshing(k) ==
  {s \in Live : IsWrap(s) /\ slots[s].cache = 1 /\ slots[s].key = k
                /\ slots[s].rpc \in {"fn", "set"}}

\* C27 as claimed: at most one background refresh is in flight for a key of a
\* single-tier cache.
C27_OneRefreshInFlight == \A k \in Keys : Cardinality(C27_Refreshing(k)) <= 1

\* C27: a wrap hit starts at most one background refresh, and it starts one
\* whenever the remaining TTL is below the threshold (and is not -1), whether or
\* not a refresh of the key is still in flight; no refresh starts otherwise.
C27_TtlStep(s) ==
  WrapTtl(s) /\ slots'[s].remainingTtl # NotAsked =>
    /\ slots'[s].rpc = "fn" <=>
         /\ slots'[s].remainingTtl # -1
         /\ slots'[s].remainingTtl < refreshThreshold[slots[s].cache]
    /\ slots'[s].rpc \in {"fn", "none"}

C27_RefreshPerHit ==
  /\ [][\A s \in Live : C27_TtlStep(s)]_vars
  /\ [](\A s \in Live : IsWrap(s) =>
          /\ slots[s].bgCalls <= 1
          /\ slots[s].rpc # "none" <=> slots[s].bgCalls = 1)

\* two wrap hits on the key have each a background producer running
C27_Witness ==
  \E s, w \in Live :
    /\ s # w /\ {s, w} \subseteq C27_Refreshing("k")
    /\ slots[s].rpc = "fn" /\ slots[w].rpc = "fn"
    /\ slots[s].pc = "done" /\ slots[w].pc = "done"

\* The tiers below the one a tiered wrap found the key at
C28_Below(s) == {u \in Tiers : u > slots[s].i}

\* a step of call s or of the member wrap it started
C28_ActsFor(s) ==
  \/ slots'[s] # slots[s]
  \/ /\ s + MaxCalls \in Live /\ s + MaxCalls \in DOMAIN slots'
     /\ slots'[s + MaxCalls] # slots[s + MaxCalls]

\* C28: a tiered wrap that finds the key at tier i reads no tier after i and writes
\* none: its lookup has ended, its backfills go to the tiers before i, the member
\* wrap it starts is tier i's, and no step of the call or of its background work
\* changes what a tier after i holds.
C28_LowerTiersUntouched ==
  /\ [](\A s \in Calls : FoundAt(s) =>
          /\ slots[s].pc \in {"ret", "done"}
          /\ slots[s].pend \subseteq 1..(slots[s].i - 1)
          /\ s + MaxCalls \in Live => slots[s + MaxCalls].cache = slots[s].i)
  /\ [][\A s \in Calls : s \in Live /\ MultiWrapGet(s) => store' = store]_vars
  /\ [][\A s \in Calls, t \in Tiers :
          FoundAt(s) /\ BackgroundSet(s, t) =>
            t < slots[s].i /\ \A u \in C28_Below(s) \cup {slots[s].i} : store'[u] = store[u]]_vars
  /\ [][\A s \in Calls :
          FoundAt(s) /\ s \in DOMAIN slots' /\ C28_ActsFor(s) =>
            \A u \in C28_Below(s) : store'[u] = store[u]]_vars

\* the key was found at the first tier, the call and its background work are over,
\* and the second tier still lacks the key
C28_Witness ==
  \E s \in Calls :
    /\ FoundAt(s) /\ slots[s].i = 1 /\ slots[s].pc = "done" /\ slots[s].pend = {}
    /\ s + MaxCalls \in Live /\ slots[s + MaxCalls].pc = "done"
    /\ 2 \notin down /\ store[2][slots[s].key].val = None

\* C29: when every Store call and every producer invocation settles, every wrap
\* call, on the tiered cache or on a member, settles in the end: the execution, the
\* calls queued on it, and the member wrap a tiered wrap starts on the key while
\* its own execution is in flight.
C29_Pending(s) ==
  s \in Live /\ slots[s].op \in {"wrap", "mwrap"} /\ slots[s].pc # "done"

C29_Settled(s) == s \in Live /\ slots[s].pc = "done"

C29_EveryWrapSettles == \A s \in Slots : C29_Pending(s) ~> C29_Settled(s)

\* a tiered wrap found the key and has settled, and so have the member wrap it
\* started and a wrap that was queued on it
C29_Witness ==
  \E s, w \in Calls :
    /\ FoundAt(s) /\ slots[s].pc = "done"
    /\ s + MaxCalls \in Live /\ Waited(s + MaxCalls, s)
    /\ w # s /\ w \in Live /\ Waited(w, s)

\* A tiered set of a cacheable value that a member's write has failed
C30_Failed(s) ==
  /\ slots[s].op = "mset" /\ slots[s].pc = "done" /\ slots[s].status = "rejected"
  /\ slots[s].err = StoreError /\ isCacheable(slots[s].data)

\* C30: a tiered set is not all-or-nothing.  When a member's write throws, the
\* writes on the other members have been issued and each takes effect when it
\* settles, before or after the rejection; once all have settled, every member
\* that did not throw holds the new value and the one that threw does not.
C30_LateStep(s, t) ==
  C30_Failed(s) /\ FanOutStep(s, t) /\ t \notin down =>
    store'[t][slots[s].key] = Written(t, slots[s].data, slots[s].ttl)

C30_OtherTiersWritten ==
  /\ [][\A s \in Live, t \in Tiers : C30_LateStep(s, t)]_vars
  /\ [](\A s \in Live : C30_Failed(s) /\ slots[s].pend = {} /\ slots[s].alone =>
          \A t \in Tiers :
            IF t \in down THEN store[t][slots[s].key].val = None
            ELSE store[t][slots[s].key] = Written(t, slots[s].data, slots[s].ttl))

\* the first tier threw, the set was rejected, and the second tier holds the value
C30_Witness ==
  \E s \in Live :
    /\ C30_Failed(s) /\ slots[s].pend = {} /\ slots[s].alone
    /\ down = {1} /\ store[1][slots[s].key].val = None
    /\ store[2][slots[s].key].val = slots[s].data

====
